---- MODULE Spec2Model ----
(***************************************************************************)
(* Model of hugo/internal/tools/link_checker/check.py: the LinkChecker     *)
(* class (check_site, _check_file, _extract_links, _check_link and the     *)
(* three resolvers, _print_summary, write_report).                         *)
(*                                                                         *)
(* Strings are sequences of one-character strings; a filesystem path is a  *)
(* sequence of segments (each a string) below the filesystem root.         *)
(***************************************************************************)
EXTENDS Integers, Sequences, FiniteSets, TLC

VARIABLES
    check_external,    \* LinkChecker.check_external
    fs,                \* the files below the root, in enumeration order
    issues,            \* LinkChecker.issues
    visited_external,  \* LinkChecker.visited_external
    pc,                \* position of check_site: "idle", "files", "links"
    html_files,        \* check_site's local html_files
    idx,               \* index in html_files of the file being checked
    links,             \* link_info tuples of the current file still to check
    run,               \* number of check_site calls made so far
    stdout,            \* what has been printed
    returned,          \* the value each finished check_site call returned
    head_log,          \* every requests.head call made: <<run, url>>
    page,              \* the ids, <a name>s and heading texts of a document
    report             \* what write_report last wrote to the report file

vars == <<check_external, fs, issues, visited_external, pc, html_files, idx,
          links, run, stdout, returned, head_log, page, report>>

(* ----------------------------- bounds ---------------------------------- *)
\* <a href> tags in the whole site
MaxTags == 2
\* check_site calls on one LinkChecker
MaxRuns == 2
\* length of the issue lists handed to write_report in SpecReport
MaxIssues == 3

(* ----------------------------- strings --------------------------------- *)
\* The characters used, in code-point order.
CharOrder == <<"\t", " ", "#", "%", "-", ".", "/", "0", "2", ":", "?", "H", "P", "S", "T",
               "[", "]", "a", "b", "d", "e", "h", "i", "l", "m", "n", "o", "p",
               "s", "t", "x", "z">>

Ord(c) == CHOOSE i \in 1..Len(CharOrder) : CharOrder[i] = c

LowerChar(c) ==
    CASE c = "H" -> "h" [] c = "P" -> "p" [] c = "S" -> "s" [] c = "T" -> "t"
      [] OTHER -> c

IsAlpha(c) == Ord(c) >= Ord("H") /\ c \notin {"[", "]"}

IsDigit(c) == c \in {"0", "2"}

\* str.lower()
Lower(s) == [i \in 1..Len(s) |-> LowerChar(s[i])]

\* str.replace(a, b) for one-character a and b
Replace(s, a, b) == [i \in 1..Len(s) |-> IF s[i] = a THEN b ELSE s[i]]

\* the whitespace characters among the characters used
Whitespace == {" ", "\t"}

RECURSIVE LStrip(_)
LStrip(s) == IF s # <<>> /\ Head(s) \in Whitespace THEN LStrip(Tail(s)) ELSE s

RECURSIVE RStrip(_)
RStrip(s) ==
    IF s # <<>> /\ s[Len(s)] \in Whitespace THEN RStrip(SubSeq(s, 1, Len(s) - 1)) ELSE s

\* str.strip()
Strip(s) == RStrip(LStrip(s))

\* str.startswith(c) for a one-character c
StartsWith(s, c) == s # <<>> /\ s[1] = c

\* s.find(c) + 1: the first position of c in s, 0 when absent
Find(s, c) ==
    IF \E i \in 1..Len(s) : s[i] = c
    THEN CHOOSE i \in 1..Len(s) : s[i] = c /\ \A j \in 1..(i - 1) : s[j] # c
    ELSE 0

\* s.rfind(c) + 1
RFind(s, c) ==
    IF \E i \in 1..Len(s) : s[i] = c
    THEN CHOOSE i \in 1..Len(s) : s[i] = c /\ \A j \in (i + 1)..Len(s) : s[j] # c
    ELSE 0

\* a < b for Python strings (lexicographic by code point)
RECURSIVE StrLess(_, _)
StrLess(a, b) ==
    IF b = <<>> THEN FALSE
    ELSE IF a = <<>> THEN TRUE
    ELSE IF Head(a) = Head(b) THEN StrLess(Tail(a), Tail(b))
    ELSE Ord(Head(a)) < Ord(Head(b))

\* urllib.parse.unquote: %xx becomes the character it encodes
HexChar(h, l) ==
    CASE h = "2" /\ l = "0" -> " "
      [] h = "2" /\ l = "d" -> "-"
      [] OTHER -> "?"

IsHex(c) == IsDigit(c) \/ c \in {"a", "b", "d", "e"}

RECURSIVE Unquote(_)
Unquote(s) ==
    IF s = <<>> THEN <<>>
    ELSE IF Head(s) = "%" /\ Len(s) >= 3 /\ IsHex(s[2]) /\ IsHex(s[3])
         THEN <<HexChar(s[2], s[3])>> \o Unquote(SubSeq(s, 4, Len(s)))
    ELSE <<Head(s)>> \o Unquote(Tail(s))

(* ------------------------------ paths ---------------------------------- *)
RECURSIVE Split(_, _)
\* str.split(c)
Split(s, c) ==
    LET i == Find(s, c)
    IN  IF i = 0 THEN <<s>>
        ELSE <<SubSeq(s, 1, i - 1)>> \o Split(SubSeq(s, i + 1, Len(s)), c)

\* The segments pathlib keeps of a path string: empty and "." segments go.
Parts(s) == SelectSeq(Split(s, "/"), LAMBDA p : p # <<>> /\ p # <<".">>)

\* current_dir / url: an absolute url replaces current_dir.
JoinPath(dir, url) == IF StartsWith(url, "/") THEN Parts(url) ELSE dir \o Parts(url)

RECURSIVE ResolveFrom(_, _)
ResolveFrom(done, rest) ==
    IF rest = <<>> THEN done
    ELSE IF Head(rest) = <<".", ".">>
         THEN ResolveFrom(IF done = <<>> THEN <<>> ELSE SubSeq(done, 1, Len(done) - 1),
                          Tail(rest))
    ELSE ResolveFrom(Append(done, Head(rest)), Tail(rest))

\* Path.resolve(): ".." segments are folded away.
Resolve(p) == ResolveFrom(<<>>, p)

\* Path.parent
Parent(p) == IF p = <<>> THEN <<>> ELSE SubSeq(p, 1, Len(p) - 1)

\* Path.name
Name(p) == IF p = <<>> THEN <<>> ELSE p[Len(p)]

\* Path.suffix: from the last dot of the name, unless the name starts or ends with it
Suffix(p) ==
    LET n == Name(p)
        i == RFind(n, ".")
    IN  IF 1 < i /\ i < Len(n) THEN SubSeq(n, i, Len(n)) ELSE <<>>

\* Path.with_suffix(suf), for a path with a name
WithSuffix(p, suf) ==
    LET n == Name(p)
        stem == SubSeq(n, 1, Len(n) - Len(Suffix(p)))
    IN  Append(Parent(p), stem \o suf)

RECURSIVE JoinStr(_)
\* str(path) of a relative path: the segments joined by "/"
JoinStr(p) ==
    IF p = <<>> THEN <<".">>
    ELSE IF Len(p) = 1 THEN p[1]
    ELSE p[1] \o <<"/">> \o JoinStr(Tail(p))

IsPrefix(a, b) == Len(a) <= Len(b) /\ SubSeq(b, 1, Len(a)) = a

\* str(path.relative_to(base)), for a path below base
RelativeTo(p, base) == JoinStr(SubSeq(p, Len(base) + 1, Len(p)))

(* ---------------------------- the site --------------------------------- *)
DotHtml == <<".", "h", "t", "m", "l">>

IndexHtml == <<"i", "n", "d", "e", "x">> \o DotHtml

\* self.site_dir, resolved
site_dir == <<<<"s">>>>

PageA == site_dir \o <<<<"a">> \o DotHtml>>

PageD == site_dir \o <<<<"d">>, IndexHtml>>

\* Files of the site that are no HTML documents: "a" and "b", without extension.
PlainFiles ==
    <<[path |-> site_dir \o <<<<"a">>>>, readable |-> TRUE, tags |-> <<>>],
      [path |-> site_dir \o <<<<"b">>>>, readable |-> TRUE, tags |-> <<>>]>>

\* Directories that exist whatever files they hold.
FixedDirs == {<<>>, site_dir, site_dir \o <<<<"d">>>>}

\* The href values the documents' <a> tags are drawn from.
Hrefs ==
    { <<"a">> \o DotHtml,                              \* a.html
      <<"m">> \o DotHtml,                              \* m.html, never there
      <<".", ".", "/", "a">> \o DotHtml,               \* ../a.html
      <<"a">>,                                         \* a file without extension
      <<"b">>,                                         \* another, with no b.html
      <<"d", "/">>,                                    \* a directory
      <<"#", "s">>,                                    \* an anchor that is there
      <<"#", "z">>,                                    \* an anchor that is not
      <<"h", "t", "t", "p", ":", "/", "/", "x">>,      \* http://x
      <<"H", "T", "T", "P", "S", ":", "/", "/", "z">>, \* HTTPS://z
      <<"m", "a", "i", "l", "t", "o", ":", "x">>,      \* mailto:x
      <<"/", "/", "[">>,                               \* a url urlparse rejects
      <<" ">> }                                        \* blank

\* The elements the documents of a site hold besides their <a href> tags:
\* <h1 id="s">T b</h1> and <a name="n">.
SitePage ==
    [ids |-> {<<"s">>}, names |-> {<<"n">>}, headings |-> <<<<"T", " ", "b">>>>]

\* the id attributes of the parsed document
DocIds == page.ids

\* the name attributes of its <a> elements
DocNames == page.names

\* the text of its h1-h6 elements, in document order
DocHeadings == page.headings

\* Path.is_dir()
IsDir(p) ==
    \/ p \in FixedDirs
    \/ \E i \in 1..Len(fs) : Len(p) < Len(fs[i].path) /\ IsPrefix(p, fs[i].path)

IsFile(p) == \E i \in 1..Len(fs) : fs[i].path = p

\* Path.exists()
Exists(p) == IsDir(p) \/ IsFile(p)

\* Path.rglob("*.html") from site_dir
RGlob ==
    SelectSeq(fs, LAMBDA f : /\ Len(site_dir) < Len(f.path)
                             /\ IsPrefix(site_dir, f.path)
                             /\ Len(Name(f.path)) >= Len(DotHtml)
                             /\ SubSeq(Name(f.path), Len(Name(f.path)) - Len(DotHtml) + 1,
                                       Len(Name(f.path))) = DotHtml)

(* --------------------------- urllib.parse ------------------------------ *)
SchemeChar(c) == IsAlpha(c) \/ IsDigit(c) \/ c \in {"-", "."}

HasScheme(url) ==
    LET i == Find(url, ":")
    IN  i > 1 /\ IsAlpha(url[1]) /\ \A j \in 1..(i - 1) : SchemeChar(url[j])

\* urlparse(url).scheme, lower-cased; empty when the url has none
UrlScheme(url) ==
    IF HasScheme(url) THEN Lower(SubSeq(url, 1, Find(url, ":") - 1)) ELSE <<>>

UrlRest(url) ==
    IF HasScheme(url) THEN SubSeq(url, Find(url, ":") + 1, Len(url)) ELSE url

\* the network location: what follows a leading // up to the next / ? or #
Netloc(rest) ==
    IF Len(rest) >= 2 /\ rest[1] = "/" /\ rest[2] = "/"
    THEN LET after == SubSeq(rest, 3, Len(rest))
             stops == {i \in 1..Len(after) : after[i] \in {"/", "?", "#"}}
             end == IF stops = {} THEN Len(after)
                    ELSE (CHOOSE i \in stops : \A j \in stops : i <= j) - 1
         IN  SubSeq(after, 1, end)
    ELSE <<>>

\* urlparse raises ValueError on a network location with an unmatched bracket
UrlParseRaises(url) ==
    LET n == Netloc(UrlRest(url))
    IN  (\E i \in 1..Len(n) : n[i] = "[") # (\E i \in 1..Len(n) : n[i] = "]")

(* ------------------------------ issues --------------------------------- *)
\* LinkIssue (the context field is left out)
LinkIssue(file, line, type, url, text) ==
    [file_path |-> RelativeTo(file.path, site_dir), line_number |-> line,
     link_type |-> type, url |-> url, issue |-> text]

\* a read failure that leaves no trace
NoFileIssue(file) == <<>>

\* _check_file's except branch
FileErrorIssues(file) ==
    <<LinkIssue(file, 1, "file", <<>>, "Error reading file")>>

\* _find_line_number: the first line that holds the tag; every <a> tag of a
\* document stands on a line of its own, the k-th on line k
FindLineNumber(tag, content) ==
    IF \E i \in 1..Len(content) : content[i] = tag
    THEN CHOOSE i \in 1..Len(content) :
            content[i] = tag /\ \A j \in 1..(i - 1) : content[j] # tag
    ELSE 1

\* the test of _extract_links that drops a tag
SkipHref(href) == href = <<>> \/ StartsWith(href, "#")

RECURSIVE ExtractFrom(_, _)
ExtractFrom(file, k) ==
    IF k > Len(file.tags) THEN <<>>
    ELSE LET href == Strip(file.tags[k])
         IN  (IF SkipHref(href) THEN <<>>
              ELSE <<[url |-> href,
                      line_number |-> FindLineNumber(file.tags[k], file.tags)]>>)
             \o ExtractFrom(file, k + 1)

\* _extract_links
ExtractLinks(file) == ExtractFrom(file, 1)

\* the link resolved from the site root instead of the document's directory
CheckInternalLinkFromSiteDir(url, line_number, file) ==
    LET resolved == Resolve(JoinPath(site_dir, url))
        target_path == IF IsDir(resolved) THEN Append(resolved, IndexHtml) ELSE resolved
    IN  IF ~Exists(target_path)
        THEN <<LinkIssue(file, line_number, "internal", url, "Target file not found")>>
        ELSE IF Suffix(target_path) = <<>>
        THEN IF Exists(WithSuffix(target_path, DotHtml))
             THEN <<>>
             ELSE <<LinkIssue(file, line_number, "internal", url,
                              "Target file not found (tried .html extension)")>>
        ELSE <<>>

\* _check_internal_link
CheckInternalLink(url, line_number, file) ==
    LET current_dir == Parent(file.path)
        resolved == Resolve(JoinPath(current_dir, url))
        target_path == IF IsDir(resolved) THEN Append(resolved, IndexHtml) ELSE resolved
    IN  IF ~Exists(target_path)
        THEN <<LinkIssue(file, line_number, "internal", url, "Target file not found")>>
        ELSE IF Suffix(target_path) = <<>>
        THEN IF Exists(WithSuffix(target_path, DotHtml))
             THEN <<>>
             ELSE <<LinkIssue(file, line_number, "internal", url,
                              "Target file not found (tried .html extension)")>>
        ELSE <<>>

RECURSIVE CollapseRuns(_)
\* every run of whitespace characters becomes one hyphen
CollapseRuns(s) ==
    IF s = <<>> THEN <<>>
    ELSE IF Head(s) \in Whitespace
         THEN <<"-">> \o CollapseRuns(LStrip(s))
    ELSE <<Head(s)>> \o CollapseRuns(Tail(s))

\* lower-cased, with each run of internal whitespace collapsed to one hyphen
CollapseNorm(s) == CollapseRuns(Lower(Strip(s)))

\* the comparison on texts whose whitespace runs are collapsed
HeaderMatchesCollapsed(text, anchor) == CollapseNorm(text) = CollapseNorm(Unquote(anchor))

\* the header comparison of _check_anchor_link
HeaderMatches(text, anchor) ==
    Replace(Lower(Strip(text)), " ", "-") = Replace(Lower(Unquote(anchor)), " ", "-")

\* the lookup of _check_anchor_link: id, then <a name>, then the headers
AnchorFound(anchor) ==
    \/ anchor \in DocIds
    \/ anchor \in DocNames
    \/ \E i \in 1..Len(DocHeadings) : HeaderMatches(DocHeadings[i], anchor)

\* _check_anchor_link, on a file that check_site has just read
CheckAnchorLink(url, line_number, file) ==
    LET anchor == SubSeq(url, 2, Len(url))
    IN  IF AnchorFound(anchor) THEN <<>>
        ELSE <<LinkIssue(file, line_number, "anchor", url, "Anchor not found on page")>>

\* What requests.head can do: answer below 400, answer 400 or above, time out,
\* fail to connect, fail otherwise.
Outcomes == {"ok", "http_error", "timeout", "connection_error", "request_error"}

\* the issue _check_external_link records for an outcome of the probe
ExternalIssues(outcome, url, line_number, file) ==
    CASE outcome = "ok" -> <<>>
      [] outcome = "http_error" ->
            <<LinkIssue(file, line_number, "external", url, "HTTP error")>>
      [] outcome = "timeout" ->
            <<LinkIssue(file, line_number, "external", url, "Request timeout")>>
      [] outcome = "connection_error" ->
            <<LinkIssue(file, line_number, "external", url, "Connection error")>>
      [] OTHER ->
            <<LinkIssue(file, line_number, "external", url, "Request error")>>

\* the guard forgotten
ProbeAlways(enabled) == TRUE

\* the guard of _check_link on an http/https url
ProbeAllowed(enabled) == enabled

\* the membership test forgotten
NeverVisited(url, visited) == FALSE

\* the guard that opens _check_external_link
AlreadyVisited(url, visited) == url \in visited

\* the early return taken for a single file too
FewHtmlFiles(files) == Len(files) <= 1

\* the test of check_site that returns before any file is checked
NoHtmlFiles(files) == files = <<>>

HttpSchemes == {<<"h", "t", "t", "p">>, <<"h", "t", "t", "p", "s">>}

(* ------------------------------ actions -------------------------------- *)
DocEntry(path, state, tags) ==
    IF state = "absent" THEN <<>>
    ELSE <<[path |-> path, readable |-> (state = "ok"), tags |-> tags]>>

\* A LinkChecker just constructed over a site that exists.
Init ==
    /\ check_external \in BOOLEAN
    /\ \E sa \in {"absent", "ok", "bad"}, sd \in {"absent", "ok", "bad"},
          na \in 0..MaxTags :
         \E nd \in 0..(MaxTags - na) :
           \E ta \in [1..na -> Hrefs], td \in [1..nd -> Hrefs] :
              /\ sa # "ok" => na = 0
              /\ sd # "ok" => nd = 0
              /\ fs = DocEntry(PageA, sa, ta) \o PlainFiles \o DocEntry(PageD, sd, td)
    /\ issues = <<>>
    /\ visited_external = {}
    /\ pc = "idle"
    /\ html_files = <<>>
    /\ idx = 1
    /\ links = <<>>
    /\ run = 0
    /\ stdout = <<>>
    /\ returned = <<>>
    /\ head_log = <<>>
    /\ page = SitePage
    /\ report = <<>>

\* check_site, up to the loop over the files
CheckSite ==
    /\ pc = "idle"
    /\ run < MaxRuns
    /\ run' = run + 1
    /\ html_files' = RGlob
    /\ idx' = 1
    /\ links' = <<>>
    /\ IF NoHtmlFiles(RGlob)
       THEN /\ stdout' = stdout \o <<[msg |-> "checking", n |-> 0],
                                     [msg |-> "warning", n |-> 0]>>
            /\ returned' = Append(returned, issues)
            /\ pc' = "idle"
       ELSE /\ stdout' = stdout \o <<[msg |-> "checking", n |-> 0],
                                     [msg |-> "found", n |-> Len(RGlob)]>>
            /\ returned' = returned
            /\ pc' = "files"
    /\ UNCHANGED <<check_external, fs, issues, visited_external, head_log, page, report>>

\* _check_file, up to the loop over the links
CheckFile ==
    /\ pc = "files"
    /\ idx <= Len(html_files)
    /\ LET file == html_files[idx]
       IN  IF ~file.readable
           THEN /\ issues' = issues \o FileErrorIssues(file)
                /\ idx' = idx + 1
                /\ UNCHANGED <<pc, links>>
           ELSE /\ links' = ExtractLinks(file)
                /\ issues' = issues
                /\ IF ExtractLinks(file) = <<>>
                   THEN idx' = idx + 1 /\ pc' = pc
                   ELSE idx' = idx /\ pc' = "links"
    /\ UNCHANGED <<check_external, fs, visited_external, html_files, run, stdout,
                   returned, head_log, page, report>>

\* _check_link on the next link of the current file
CheckLink ==
    /\ pc = "links"
    /\ links # <<>>
    /\ LET url == Head(links).url
           line_number == Head(links).line_number
           file == html_files[idx]
       IN  IF UrlParseRaises(url)
           THEN /\ issues' = Append(issues, LinkIssue(file, line_number, "internal", url,
                                                      "Error parsing link"))
                /\ UNCHANGED <<visited_external, head_log>>
           ELSE IF UrlScheme(url) \in HttpSchemes
           THEN IF ProbeAllowed(check_external) /\ ~AlreadyVisited(url, visited_external)
                THEN \E outcome \in Outcomes :
                       /\ visited_external' = visited_external \cup {url}
                       /\ head_log' = Append(head_log, <<run, url>>)
                       /\ issues' = issues \o ExternalIssues(outcome, url, line_number, file)
                ELSE UNCHANGED <<issues, visited_external, head_log>>
           ELSE IF UrlScheme(url) = <<>>
           THEN /\ issues' = issues \o (IF StartsWith(url, "#")
                                        THEN CheckAnchorLink(url, line_number, file)
                                        ELSE CheckInternalLink(url, line_number, file))
                /\ UNCHANGED <<visited_external, head_log>>
           ELSE UNCHANGED <<issues, visited_external, head_log>>
    /\ links' = Tail(links)
    /\ IF Tail(links) = <<>>
       THEN idx' = idx + 1 /\ pc' = "files"
       ELSE idx' = idx /\ pc' = pc
    /\ UNCHANGED <<check_external, fs, html_files, run, stdout, returned, page, report>>

\* _print_summary and the return of check_site
PrintSummary ==
    /\ pc = "files"
    /\ idx > Len(html_files)
    /\ stdout' = Append(stdout, [msg |-> "summary", n |-> Len(issues)])
    /\ returned' = Append(returned, issues)
    /\ pc' = "idle"
    /\ UNCHANGED <<check_external, fs, issues, visited_external, html_files, idx,
                   links, run, head_log, page, report>>

Next == CheckSite \/ CheckFile \/ CheckLink \/ PrintSummary

Spec == Init /\ [][Next]_vars

(* ---------------------------- write_report ----------------------------- *)
\* the keys of issues_by_file
ReportFiles(iss) == {iss[i].file_path : i \in 1..Len(iss)}

RECURSIVE SortedFiles(_)
\* sorted(issues_by_file.items()): the keys in ascending string order
SortedFiles(S) ==
    IF S = {} THEN <<>>
    ELSE LET least == CHOOSE f \in S : \A g \in S \ {f} : StrLess(f, g)
         IN  <<least>> \o SortedFiles(S \ {least})

\* issues_by_file[file_path]: the file's issues in the order they were appended
FileIssues(iss, file_path) == SelectSeq(iss, LAMBDA i : i.file_path = file_path)

RECURSIVE InsertByLine(_, _)
InsertByLine(sorted, x) ==
    IF sorted = <<>> THEN <<x>>
    ELSE IF Head(sorted).line_number <= x.line_number
         THEN <<Head(sorted)>> \o InsertByLine(Tail(sorted), x)
    ELSE <<x>> \o sorted

\* what a forgotten sort would leave
UnsortedByLine(s) == s

RECURSIVE SortedByLine(_)
\* sorted(file_issues, key=lambda x: x.line_number), a stable sort
SortedByLine(s) ==
    IF s = <<>> THEN <<>>
    ELSE InsertByLine(SortedByLine(SubSeq(s, 1, Len(s) - 1)), s[Len(s)])

RECURSIVE RenderIssues(_)
RenderIssues(s) ==
    IF s = <<>> THEN <<>> ELSE <<<<"issue", Head(s)>>>> \o RenderIssues(Tail(s))

RECURSIVE RenderFiles(_, _)
RenderFiles(iss, files) ==
    IF files = <<>> THEN <<>>
    ELSE <<<<"file", Head(files)>>>>
         \o RenderIssues(SortedByLine(FileIssues(iss, Head(files))))
         \o RenderFiles(iss, Tail(files))

\* the text write_report writes, one element per heading or issue block
Render(iss) ==
    <<<<"title">>, <<"total", Len(iss)>>>> \o RenderFiles(iss, SortedFiles(ReportFiles(iss)))

\* write_report
WriteReport ==
    /\ pc = "idle"
    /\ IF issues = <<>>
       THEN /\ stdout' = Append(stdout, [msg |-> "nothing to report", n |-> 0])
            /\ report' = report
       ELSE /\ report' = Render(issues)
            /\ stdout' = Append(stdout, [msg |-> "report written", n |-> 0])
    /\ UNCHANGED <<check_external, fs, issues, visited_external, pc, html_files, idx,
                   links, run, returned, head_log, page>>

\* The issue lists write_report is tried on: any list of issues over three
\* files, two lines and two urls.
ReportPaths ==
    { <<"a">> \o DotHtml,
      <<"a", "/", "b">> \o DotHtml,
      <<"d", "/">> \o IndexHtml }

ReportIssues ==
    [file_path : ReportPaths, line_number : {1, 2}, link_type : {"internal"},
     url : {<<"m">> \o DotHtml, <<"b">>}, issue : {"Target file not found"}]

InitReport ==
    /\ check_external = FALSE
    /\ fs = PlainFiles
    /\ \E n \in 0..MaxIssues : issues \in [1..n -> ReportIssues]
    /\ visited_external = {}
    /\ pc = "idle"
    /\ html_files = <<>>
    /\ idx = 1
    /\ links = <<>>
    /\ run = 1
    /\ stdout = <<>>
    /\ returned = <<>>
    /\ head_log = <<>>
    /\ page = SitePage
    /\ report = <<>>

\* main() calls write_report once, after check_site has returned
WriteOnce == report = <<>> /\ stdout = <<>> /\ WriteReport

NextReport == WriteOnce

SpecReport == InitReport /\ [][NextReport]_vars

(* ------------------------ vocabulary of the claims --------------------- *)
Count(s, Test(_)) == Len(SelectSeq(s, Test))

\* the documents check_site enumerates
Docs == RGlob

ReadableDocs == {Docs[i] : i \in {j \in 1..Len(Docs) : Docs[j].readable}}

\* the href values of a document's <a> tags, as _extract_links reads them
RefsOf(file) == {Strip(file.tags[k]) : k \in 1..Len(file.tags)}

Occurrences(file, href) == Cardinality({k \in 1..Len(file.tags) : Strip(file.tags[k]) = href})

OccurrencesOnLine(file, href, line) ==
    Cardinality({k \in 1..Len(file.tags) :
                    /\ Strip(file.tags[k]) = href
                    /\ FindLineNumber(file.tags[k], file.tags) = line})

IsExternalRef(href) ==
    href # <<>> /\ ~UrlParseRaises(href) /\ UrlScheme(href) \in HttpSchemes

IsAnchorRef(href) == StartsWith(href, "#")

IsInternalRef(href) ==
    /\ href # <<>>
    /\ ~UrlParseRaises(href)
    /\ UrlScheme(href) = <<>>
    /\ ~StartsWith(href, "#")

\* the target of an internal reference, resolved from the document's directory
TargetOf(file, href) == Resolve(JoinPath(Parent(file.path), href))

\* the target is on disk: a file, or a directory that holds index.html
TargetExists(file, href) ==
    LET t == TargetOf(file, href)
    IN  IsFile(t) \/ (IsDir(t) /\ IsFile(Append(t, IndexHtml)))

\* the target is on disk in none of the three ways
TargetMissing(file, href) ==
    LET t == TargetOf(file, href)
    IN  /\ ~IsFile(t)
        /\ ~(IsDir(t) /\ IsFile(Append(t, IndexHtml)))
        /\ ~IsFile(WithSuffix(t, DotHtml))

Path(file) == RelativeTo(file.path, site_dir)

\* a check_site call has just returned: the states in which its result is judged
Returned == pc = "idle" /\ returned # <<>>

\* the call that returned last
Last == Len(returned)

\* the issues the r-th check_site call appended
RunIssues(r) ==
    SubSeq(returned[r], (IF r = 1 THEN 0 ELSE Len(returned[r - 1])) + 1, Len(returned[r]))

\* what the r-th check_site call printed
RunOutput(r) ==
    LET starts == {i \in 1..Len(stdout) : stdout[i].msg = "checking"}
        first == CHOOSE i \in starts : Cardinality({j \in starts : j <= i}) = r
        later == {j \in starts : j > first}
        last == IF later = {} THEN Len(stdout)
                ELSE (CHOOSE j \in later : \A k \in later : j <= k) - 1
    IN  SubSeq(stdout, first, last)

Printed(out, what) == \E i \in 1..Len(out) : out[i].msg = what

(* ------------------------------- claims -------------------------------- *)
\* C1: with external checking disabled no HEAD request is ever made and no
\* issue of link_type 'external' is ever recorded; a site whose readable
\* documents hold only http/https references returns no issue at all.
OnlyExternalSite ==
    /\ Docs # <<>>
    /\ \A i \in 1..Len(Docs) :
          /\ Docs[i].readable
          /\ \A href \in RefsOf(Docs[i]) : IsExternalRef(href)

C1_DisabledNeverProbes ==
    ~check_external =>
        /\ head_log = <<>>
        /\ \A i \in 1..Len(issues) : issues[i].link_type # "external"
        /\ (Returned /\ OnlyExternalSite) => returned[Last] = <<>>

C1_Witness ==
    /\ ~check_external
    /\ OnlyExternalSite
    /\ \E i \in 1..Len(Docs) : Len(Docs[i].tags) = MaxTags
    /\ Len(returned) >= 1
    /\ returned[1] = <<>>

\* C2: no 'internal' issue is recorded for an internal reference whose target
\* is on disk (a file, or a directory holding index.html), a target without
\* file extension included.
C2_ExistingTargetNoIssue ==
    \A file \in ReadableDocs : \A href \in RefsOf(file) :
        (IsInternalRef(href) /\ TargetExists(file, href)) =>
            ~\E i \in 1..Len(issues) :
                /\ issues[i].link_type = "internal"
                /\ issues[i].file_path = Path(file)
                /\ issues[i].url = href

\* C3: a finished check_site call has recorded, for every internal reference
\* whose target is missing directly, as directory index and with .html
\* appended, exactly one 'internal' issue per occurrence of the reference,
\* carrying the document's site-relative path, the line and the url.
C3_MissingTargetOneIssue ==
    Returned => \A file \in ReadableDocs : \A href \in RefsOf(file) :
        (IsInternalRef(href) /\ TargetMissing(file, href)) =>
            /\ Count(RunIssues(Last), LAMBDA i : i.file_path = Path(file) /\ i.url = href)
                  = Occurrences(file, href)
            /\ \A line \in 1..(Len(file.tags) + 1) :
                  Count(RunIssues(Last), LAMBDA i : /\ i.link_type = "internal"
                                                 /\ i.file_path = Path(file)
                                                 /\ i.url = href
                                                 /\ i.line_number = line)
                     = OccurrencesOnLine(file, href, line)

C3_Witness ==
    /\ Len(returned) >= 1
    /\ \E file \in ReadableDocs : \E href \in RefsOf(file) :
          /\ IsInternalRef(href)
          /\ TargetMissing(file, href)
          /\ Occurrences(file, href) = 2
          /\ Count(RunIssues(1), LAMBDA i : i.file_path = Path(file) /\ i.url = href) = 2

\* C4: a finished check_site call has recorded no 'anchor' issue for a
\* same-page anchor reference that the document resolves (id, <a name> or
\* heading text), and exactly one per occurrence for one it does not.
C4_AnchorsChecked ==
    Returned => \A file \in ReadableDocs : \A href \in RefsOf(file) :
        IsAnchorRef(href) =>
            Count(RunIssues(Last), LAMBDA i : /\ i.link_type = "anchor"
                                           /\ i.file_path = Path(file)
                                           /\ i.url = href)
               = IF AnchorFound(SubSeq(href, 2, Len(href))) THEN 0
                 ELSE Occurrences(file, href)

\* C5: with external checking enabled no url is the subject of two HEAD
\* requests within one check_site call, whatever the first request's outcome,
\* and every url probed is in the visited-external set.
C5_ProbedAtMostOnce ==
    check_external =>
        /\ \A i, j \in 1..Len(head_log) : head_log[i] = head_log[j] => i = j
        /\ \A i \in 1..Len(head_log) : head_log[i][2] \in visited_external

C5_Witness ==
    /\ check_external
    /\ Len(returned) >= 1
    /\ \E href \in Hrefs :
          /\ IsExternalRef(href)
          /\ \E i, j \in 1..Len(Docs) : /\ i # j
                                        /\ href \in RefsOf(Docs[i])
                                        /\ href \in RefsOf(Docs[j])
          /\ Count(head_log, LAMBDA e : e = <<1, href>>) = 1
          /\ \E k \in 1..Len(returned[1]) : returned[1][k].url = href

\* C6: issues are never de-duplicated; stated for internal and external
\* references: when the first check_site call has returned, a broken target
\* (an internal target that is missing, an external url whose probe failed)
\* has as many issues as there are references to it.
ExternalRefs(href) ==
    LET n[k \in 0..Len(Docs)] ==
            IF k = 0 THEN 0
            ELSE n[k - 1] + (IF Docs[k].readable THEN Occurrences(Docs[k], href) ELSE 0)
    IN  n[Len(Docs)]

C6_NoDeduplication ==
    Len(returned) >= 1 =>
        /\ \A file \in ReadableDocs : \A href \in RefsOf(file) :
              (IsInternalRef(href) /\ TargetMissing(file, href)) =>
                 Count(RunIssues(1), LAMBDA i : i.file_path = Path(file) /\ i.url = href)
                    = Occurrences(file, href)
        /\ \A href \in Hrefs :
              (/\ check_external
               /\ IsExternalRef(href)
               /\ \E k \in 1..Len(RunIssues(1)) : RunIssues(1)[k].url = href) =>
                 Count(RunIssues(1), LAMBDA i : i.url = href) = ExternalRefs(href)

\* C7: a document that cannot be read leaves exactly one issue in a finished
\* check_site call, of link_type 'file' with line 1 and an empty url, and the
\* call still records the issues of the documents that can be read.
C7_FileErrorIsolated ==
    Returned =>
        /\ \A i \in 1..Len(Docs) :
              ~Docs[i].readable =>
                 SelectSeq(RunIssues(Last), LAMBDA x : x.file_path = Path(Docs[i]))
                    = <<[file_path |-> Path(Docs[i]), line_number |-> 1,
                         link_type |-> "file", url |-> <<>>,
                         issue |-> "Error reading file"]>>
        /\ \A file \in ReadableDocs : \A href \in RefsOf(file) :
              (IsInternalRef(href) /\ TargetMissing(file, href)) =>
                 \E k \in 1..Len(RunIssues(Last)) :
                    /\ RunIssues(Last)[k].file_path = Path(file)
                    /\ RunIssues(Last)[k].url = href

C7_Witness ==
    /\ Len(returned) >= 1
    /\ Len(Docs) = 2
    /\ ~Docs[1].readable
    /\ Docs[2].readable
    /\ \E href \in RefsOf(Docs[2]) : IsInternalRef(href) /\ TargetMissing(Docs[2], href)
    /\ Len(returned[1]) >= 2
    /\ returned[1][1].link_type = "file"
    /\ returned[1][2].link_type = "internal"

\* C8: every check_site call that has returned printed the run summary, a
\* site without HTML documents included.
C8_SummaryAlways ==
    Returned => Printed(RunOutput(Last), "summary")

\* C8 as amended: a check_site call that has returned printed the run summary
\* as its last line when the site holds an HTML document, and the no-HTML
\* warning without a summary when it holds none.
C8_SummaryWhenFiles ==
    Returned =>
        LET out == RunOutput(Last)
        IN  IF Docs # <<>>
            THEN /\ out[Len(out)].msg = "summary"
                 /\ out[Len(out)].n = Len(returned[Last])
            ELSE Printed(out, "warning") /\ ~Printed(out, "summary")

C8_Witness ==
    /\ Len(returned) >= 1
    /\ Docs # <<>>
    /\ pc = "idle"
    /\ stdout[Len(stdout)].msg = "summary"

\* C9: the report written for a non-empty issue list holds every issue exactly
\* once, under the heading of its file_path, the headings in ascending string
\* order and each file's issues in ascending line order, issues of one line in
\* the order they were recorded.
ReportBlocks(kind) == SelectSeq(report, LAMBDA e : e[1] = kind)

\* the heading an issue block stands under: the last one before it
HeadingOf(i) ==
    LET before == {j \in 1..(i - 1) : report[j][1] = "file"}
    IN  report[CHOOSE j \in before : \A k \in before : k <= j][2]

SameFileAndLine(f, line, i) == i.file_path = f /\ i.line_number = line

C9_ReportGroupedAndSorted ==
    report # <<>> =>
        /\ \A f \in ReportPaths : \A line \in {issues[i].line_number : i \in 1..Len(issues)} :
              LET recorded == SelectSeq(issues, LAMBDA i : SameFileAndLine(f, line, i))
              IN  SelectSeq(ReportBlocks("issue"), LAMBDA e : SameFileAndLine(f, line, e[2]))
                     = [k \in 1..Len(recorded) |-> <<"issue", recorded[k]>>]
        /\ Len(ReportBlocks("issue")) = Len(issues)
        /\ \A i, j \in 1..Len(ReportBlocks("file")) :
              i < j => StrLess(ReportBlocks("file")[i][2], ReportBlocks("file")[j][2])
        /\ \A i \in 1..Len(report) :
              report[i][1] = "issue" =>
                 /\ \E j \in 1..(i - 1) : report[j][1] = "file"
                 /\ HeadingOf(i) = report[i][2].file_path
        /\ \A i, j \in 1..Len(report) :
              (/\ i < j
               /\ report[i][1] = "issue"
               /\ report[j][1] = "issue"
               /\ report[i][2].file_path = report[j][2].file_path) =>
                 report[i][2].line_number <= report[j][2].line_number

\* three issues recorded as (d/index.html, line 2), (a/b.html, line 1),
\* (d/index.html, line 1) and written as a/b.html first, then d/index.html
\* with line 1 before line 2
C9_Witness ==
    /\ Len(issues) = 3
    /\ issues[1].file_path = <<"d", "/">> \o IndexHtml
    /\ issues[1].line_number = 2
    /\ issues[2].file_path = <<"a", "/", "b">> \o DotHtml
    /\ issues[3].file_path = <<"d", "/">> \o IndexHtml
    /\ issues[3].line_number = 1
    /\ Len(report) = 7
    /\ report[3] = <<"file", <<"a", "/", "b">> \o DotHtml>>
    /\ report[4] = <<"issue", issues[2]>>
    /\ report[6] = <<"issue", issues[3]>>
    /\ report[7] = <<"issue", issues[1]>>

\* C10: a second check_site call on the same LinkChecker over the unchanged
\* site returns the issues the first call returned.
C10_RunsIndependent ==
    Len(returned) >= 2 => returned[2] = returned[1]

(* ---------------------- _check_anchor_link alone ----------------------- *)
\* headings of the page _check_anchor_link is tried on
MaxHeadings == 1

\* The anchor names tried: s, n, z, T%20b, t-b, "T b", T%20%20b, %20t-b,
\* t--b, t%2db and "t<tab>b".
AnchorNames ==
    { <<"s">>, <<"n">>, <<"z">>,
      <<"T", "%", "2", "0", "b">>,
      <<"t", "-", "b">>,
      <<"T", " ", "b">>,
      <<"T", "%", "2", "0", "%", "2", "0", "b">>,
      <<"%", "2", "0", "t", "-", "b">>,
      <<"t", "-", "-", "b">>,
      <<"t", "%", "2", "d", "b">>,
      <<"t", "\t", "b">> }

\* The heading texts tried: "T b", "T  b", " T b " and "T<tab>b".
HeadingTexts ==
    { <<"T", " ", "b">>,
      <<"T", " ", " ", "b">>,
      <<" ", "T", " ", "b", " ">>,
      <<"T", "\t", "b">> }

\* A LinkChecker over a site with one readable page, and a same-page anchor
\* reference of that page handed to _check_anchor_link.
InitAnchor ==
    /\ check_external = FALSE
    /\ fs = DocEntry(PageA, "ok", <<>>) \o PlainFiles
    /\ \E ids \in SUBSET {<<"s">>, <<"t", "-", "b">>}, names \in SUBSET {<<"n">>},
          k \in 0..MaxHeadings :
         \E hs \in [1..k -> HeadingTexts] :
            page = [ids |-> ids, names |-> names, headings |-> hs]
    /\ \E name \in AnchorNames, line \in 1..2 :
         links = <<[url |-> <<"#">> \o name, line_number |-> line]>>
    /\ html_files = DocEntry(PageA, "ok", <<>>)
    /\ idx = 1
    /\ issues = <<>>
    /\ visited_external = {}
    /\ pc = "anchor"
    /\ run = 0
    /\ stdout = <<>>
    /\ returned = <<>>
    /\ head_log = <<>>
    /\ report = <<>>

\* one call of _check_anchor_link
AnchorCall ==
    /\ pc = "anchor"
    /\ issues' = issues \o CheckAnchorLink(Head(links).url, Head(links).line_number,
                                           html_files[idx])
    /\ pc' = "idle"
    /\ UNCHANGED <<check_external, fs, visited_external, html_files, idx, links, run,
                   stdout, returned, head_log, page, report>>

NextAnchor == AnchorCall

SpecAnchor == InitAnchor /\ [][NextAnchor]_vars

\* the name _check_anchor_link was called with
CalledName == SubSeq(Head(links).url, 2, Len(Head(links).url))

\* the 'anchor' issue of the call
NotFoundIssue ==
    [file_path |-> Path(html_files[idx]), line_number |-> Head(links).line_number,
     link_type |-> "anchor", url |-> Head(links).url, issue |-> "Anchor not found on page"]

RECURSIVE HyphenateSpaces(_)
\* lower-cased, every space character a hyphen of its own
HyphenateSpaces(s) ==
    IF s = <<>> THEN <<>>
    ELSE <<IF Head(s) = " " THEN "-" ELSE LowerChar(Head(s))>> \o HyphenateSpaces(Tail(s))

====
